---- MODULE Spec2Model ----
(***************************************************************************)
(* Model of the "Inclination QC" dashboard (src/app.py, src/utils.py).     *)
(*                                                                         *)
(* Numbers are kept in units of 1e-4 (0.07 is 700), wrapped in records so  *)
(* that a float, NaN and None are distinct values.  Strings that are       *)
(* parsed character by character are sequences of one-character strings.   *)
(***************************************************************************)
EXTENDS Integers, Sequences, FiniteSets, TLC

VARIABLES uploaded, df, load_error, sel_hours, render_range, edits, now,
          stage, selected_row_id, last_form, val, color, token, rgb_out

vars == <<uploaded, df, load_error, sel_hours, render_range, edits, now,
          stage, selected_row_id, last_form, val, color, token, rgb_out>>

appVars == <<uploaded, df, load_error, sel_hours, render_range, edits, now,
             stage, selected_row_id, last_form>>

colorVars == <<val, color>>

codecVars == <<token, rgb_out>>

\* ------------------------------------------------------------------------
\* Bounds of the model
\* ------------------------------------------------------------------------
MaxVal == 1600

MaxLen == 6

MaxEdits == 2

MaxTime == 2

\* ------------------------------------------------------------------------
\* Values
\* ------------------------------------------------------------------------
Num(v) == [k |-> "num", v |-> v]

NaN == [k |-> "nan", v |-> 0]

None == [k |-> "none", v |-> 0]

NaT == -1

Chr(k, s) == [k |-> k, s |-> s]

Str(s) == Chr("str", s)

\* ------------------------------------------------------------------------
\* utils.get_color
\* ------------------------------------------------------------------------
GRAY == <<"g", "r", "a", "y">>

GREEN == <<"g", "r", "e", "e", "n">>

YELLOW == <<"y", "e", "l", "l", "o", "w">>

ORANGE == <<"o", "r", "a", "n", "g", "e">>

RED == <<"r", "e", "d">>

LIGHTBLUE == <<"l", "i", "g", "h", "t", "b", "l", "u", "e">>

BLUE == <<"b", "l", "u", "e">>

PURPLE == <<"p", "u", "r", "p", "l", "e">>

BLACK == <<"b", "l", "a", "c", "k">>

WHITE == <<"w", "h", "i", "t", "e">>

T_NORMAL == 700

T_POS == 950

T_NEG == 1000

T_SEVERE == 1500

Abs(x) == IF x < 0 THEN -x ELSE x

get_color_swapped(v) ==
    IF v.k = "nan" \/ v.k = "none" THEN GRAY
    ELSE LET abs_val == Abs(v.v) IN
         IF abs_val < T_NORMAL THEN GREEN
         ELSE IF v.v >= 0
              THEN IF abs_val < T_NEG THEN YELLOW
                   ELSE IF abs_val > T_SEVERE THEN RED
                   ELSE ORANGE
              ELSE IF abs_val < T_POS THEN LIGHTBLUE
                   ELSE IF abs_val > T_SEVERE THEN PURPLE
                   ELSE BLUE

get_color(v) ==
    IF v.k = "nan" \/ v.k = "none" THEN GRAY
    ELSE LET abs_val == Abs(v.v) IN
         IF abs_val < T_NORMAL THEN GREEN
         ELSE IF v.v >= 0
              THEN IF abs_val < T_POS THEN YELLOW
                   ELSE IF abs_val > T_SEVERE THEN RED
                   ELSE ORANGE
              ELSE IF abs_val < T_NEG THEN LIGHTBLUE
                   ELSE IF abs_val > T_SEVERE THEN PURPLE
                   ELSE BLUE

\* The colour the legend drawn by add_misplacement_legend states for m.
LegendColor(m) ==
    IF Abs(m) < 700 THEN GREEN
    ELSE IF m > 0
         THEN IF 700 <= m /\ m < 1000 THEN YELLOW
              ELSE IF 1000 <= m /\ m <= 1500 THEN ORANGE
              ELSE RED
         ELSE IF -1000 < m /\ m <= -700 THEN LIGHTBLUE
              ELSE IF -1500 <= m /\ m <= -1000 THEN BLUE
              ELSE PURPLE

\* ------------------------------------------------------------------------
\* utils.hex_to_rgb_list
\* ------------------------------------------------------------------------
NAMED ==
    { <<GRAY, <<128, 128, 128>> >>, <<GREEN, <<0, 128, 0>> >>,
      <<YELLOW, <<255, 255, 0>> >>, <<ORANGE, <<255, 165, 0>> >>,
      <<LIGHTBLUE, <<173, 216, 230>> >>, <<PURPLE, <<128, 0, 128>> >>,
      <<BLUE, <<0, 0, 255>> >>, <<RED, <<255, 0, 0>> >>,
      <<BLACK, <<0, 0, 0>> >>, <<WHITE, <<255, 255, 255>> >> }

InNamed(s) == \E p \in NAMED : p[1] = s

NamedRgb(s) == (CHOOSE p \in NAMED : p[1] = s)[2]

Whitespace == {" ", "\t", "\n"}

UpperCase == <<"A", "B", "C", "D", "E", "F", "G", "H", "I", "J", "K", "L", "M",
               "N", "O", "P", "Q", "R", "S", "T", "U", "V", "W", "X", "Y", "Z">>

LowerCase == <<"a", "b", "c", "d", "e", "f", "g", "h", "i", "j", "k", "l", "m",
               "n", "o", "p", "q", "r", "s", "t", "u", "v", "w", "x", "y", "z">>

LowerChar(ch) ==
    IF \E i \in 1..26 : UpperCase[i] = ch
    THEN LowerCase[CHOOSE i \in 1..26 : UpperCase[i] = ch]
    ELSE ch

Lower(s) == [i \in 1..Len(s) |-> LowerChar(s[i])]

RECURSIVE LStrip(_)
LStrip(s) ==
    IF s # <<>> /\ Head(s) \in Whitespace THEN LStrip(Tail(s)) ELSE s

RECURSIVE RStrip(_)
RStrip(s) ==
    IF s # <<>> /\ s[Len(s)] \in Whitespace
    THEN RStrip(SubSeq(s, 1, Len(s) - 1))
    ELSE s

Strip(s) == RStrip(LStrip(s))

DecDigits == <<"0", "1", "2", "3", "4", "5", "6", "7", "8", "9">>

HexDigits == DecDigits \o <<"a", "b", "c", "d", "e", "f">>

IsDec(ch) == \E i \in 1..10 : DecDigits[i] = ch

DecVal(ch) == (CHOOSE i \in 1..10 : DecDigits[i] = ch) - 1

IsHex(ch) == \E i \in 1..16 : HexDigits[i] = ch

HexVal(ch) == (CHOOSE i \in 1..16 : HexDigits[i] = ch) - 1

\* int(t, 16) for a two-character slice t: ok = FALSE stands for ValueError.
\* int() strips surrounding whitespace and accepts one leading sign.
PyInt16(t) ==
    IF IsHex(t[1]) /\ IsHex(t[2])
    THEN [ok |-> TRUE, v |-> 16 * HexVal(t[1]) + HexVal(t[2])]
    ELSE IF t[1] = "-" /\ IsHex(t[2]) THEN [ok |-> TRUE, v |-> -HexVal(t[2])]
    ELSE IF t[1] = "+" /\ IsHex(t[2]) THEN [ok |-> TRUE, v |-> HexVal(t[2])]
    ELSE IF t[1] \in Whitespace /\ IsHex(t[2]) THEN [ok |-> TRUE, v |-> HexVal(t[2])]
    ELSE IF IsHex(t[1]) /\ t[2] \in Whitespace THEN [ok |-> TRUE, v |-> HexVal(t[1])]
    ELSE [ok |-> FALSE, v |-> 0]

\* The regular expression rgba?\(\s*(\d{1,3})\s*,\s*(\d{1,3})\s*,\s*(\d{1,3})
\* matched at the start of s, as positions into s.
At(s, i) == IF i <= Len(s) THEN s[i] ELSE ""

RECURSIVE SkipWs(_, _)
SkipWs(s, i) == IF At(s, i) \in Whitespace THEN SkipWs(s, i + 1) ELSE i

NumDigits(s, i) ==
    IF ~IsDec(At(s, i)) THEN 0
    ELSE IF ~IsDec(At(s, i + 1)) THEN 1
    ELSE IF ~IsDec(At(s, i + 2)) THEN 2
    ELSE 3

RECURSIVE DigitsVal(_, _, _)
DigitsVal(s, i, n) ==
    IF n = 0 THEN 0
    ELSE 10 * DigitsVal(s, i, n - 1) + DecVal(s[i + n - 1])

\* One "\s*(\d{1,3})" group starting at i: the position after it (0: no match)
\* and the number read.
RgbGroup(s, i) ==
    LET j == SkipWs(s, i)
        n == NumDigits(s, j)
    IN  IF n = 0 THEN [next |-> 0, v |-> 0]
        ELSE [next |-> j + n, v |-> DigitsVal(s, j, n)]

\* "\s*," starting at i: the position after the comma (0: no match).
RgbComma(s, i) ==
    LET j == SkipWs(s, i) IN IF At(s, j) = "," THEN j + 1 ELSE 0

RgbMatch(s) ==
    LET nomatch == [ok |-> FALSE, r |-> 0, g |-> 0, b |-> 0]
        p0 == IF At(s, 1) = "r" /\ At(s, 2) = "g" /\ At(s, 3) = "b"
              THEN (IF At(s, 4) = "a" THEN 5 ELSE 4)
              ELSE 0
    IN  IF p0 = 0 \/ At(s, p0) # "(" THEN nomatch
        ELSE LET g1 == RgbGroup(s, p0 + 1) IN
             IF g1.next = 0 THEN nomatch
             ELSE LET c1 == RgbComma(s, g1.next) IN
             IF c1 = 0 THEN nomatch
             ELSE LET g2 == RgbGroup(s, c1) IN
             IF g2.next = 0 THEN nomatch
             ELSE LET c2 == RgbComma(s, g2.next) IN
             IF c2 = 0 THEN nomatch
             ELSE LET g3 == RgbGroup(s, c2) IN
             IF g3.next = 0 THEN nomatch
             ELSE [ok |-> TRUE, r |-> g1.v, g |-> g2.v, b |-> g3.v]

Min(a, b) == IF a < b THEN a ELSE b

Max(a, b) == IF a > b THEN a ELSE b

clamp(x) == Max(0, Min(255, x))

Doubled(s) == [i \in 1..(2 * Len(s)) |-> s[(i + 1) \div 2]]

hex_to_rgb_list(c) ==
    IF c.k = "none" \/ c.k = "nan" THEN NamedRgb(GRAY)
    ELSE LET s == Lower(Strip(c.s)) IN
         IF s = <<>> THEN NamedRgb(GRAY)
         ELSE IF InNamed(s) THEN NamedRgb(s)
         ELSE LET m == RgbMatch(s) IN
              IF m.ok THEN <<clamp(m.r), clamp(m.g), clamp(m.b)>>
              ELSE LET s1 == IF Head(s) = "#" THEN Tail(s) ELSE s
                       s2 == IF Len(s1) = 3 THEN Doubled(s1) ELSE s1
                   IN  IF Len(s2) = 6
                       THEN LET r == PyInt16(SubSeq(s2, 1, 2))
                                g == PyInt16(SubSeq(s2, 3, 4))
                                b == PyInt16(SubSeq(s2, 5, 6))
                            IN  IF r.ok /\ g.ok /\ b.ok
                                THEN <<r.v, g.v, b.v>>
                                ELSE NamedRgb(GRAY)
                       ELSE NamedRgb(GRAY)

\* ------------------------------------------------------------------------
\* float(txt) of the edit form: ok = FALSE stands for ValueError.  Covers
\* "nan" and plain decimals with at most four fractional digits, which is
\* what the text inputs of the model contain.
\* ------------------------------------------------------------------------
AllDec(s) == \A i \in 1..Len(s) : IsDec(s[i])

RECURSIVE Pow10(_)
Pow10(n) == IF n = 0 THEN 1 ELSE 10 * Pow10(n - 1)

DotAt(s) == IF \E i \in 1..Len(s) : s[i] = "."
            THEN CHOOSE i \in 1..Len(s) : s[i] = "." /\ \A j \in 1..(i - 1) : s[j] # "."
            ELSE 0

Unsigned(t) == IF t # <<>> /\ Head(t) \in {"-", "+"} THEN Tail(t) ELSE t

Sign(t) == IF t # <<>> /\ Head(t) = "-" THEN -1 ELSE 1

IntPart(u) == IF DotAt(u) = 0 THEN u ELSE SubSeq(u, 1, DotAt(u) - 1)

FracPart(u) == IF DotAt(u) = 0 THEN <<>> ELSE SubSeq(u, DotAt(u) + 1, Len(u))

ParseDecimal(sgn, ip, fp) ==
    IF (ip = <<>> /\ fp = <<>>) \/ ~AllDec(ip) \/ ~AllDec(fp) \/ Len(fp) > 4
    THEN [ok |-> FALSE, v |-> NaN]
    ELSE [ok |-> TRUE,
          v |-> Num(sgn * (10000 * DigitsVal(ip, 1, Len(ip))
                           + DigitsVal(fp, 1, Len(fp)) * Pow10(4 - Len(fp))))]

ParseFloat(t) ==
    IF Unsigned(t) = <<"n", "a", "n">> THEN [ok |-> TRUE, v |-> NaN]
    ELSE ParseDecimal(Sign(t), IntPart(Unsigned(t)), FracPart(Unsigned(t)))

PyFloat(txt) == ParseFloat(Lower(Strip(txt)))

\* ------------------------------------------------------------------------
\* app.py: constants, uploaded files, load_data
\* ------------------------------------------------------------------------
REQUIRED_COLS == <<"lat", "lon", "ts", "fwd_path", "pole_id",
                   "rail_incl_corrected", "misplacement",
                   "rail_top_amsl", "asphalt_amsl", "shoulder_amsl">>

EDITABLE_COLS == <<"rail_incl_corrected", "misplacement">>

Range(s) == {s[i] : i \in 1..Len(s)}

Iso(h) == [k |-> "iso", hour |-> h]

BadTs == [k |-> "bad", hour |-> 0]

RawRow(ts, pole, mis, incl) ==
    [ts |-> ts, pole_id |-> pole, misplacement |-> mis, rail_incl_corrected |-> incl]

NoFile == [name |-> "", cols |-> {}, rows |-> <<>>]

FileA == [name |-> "a.csv",
          cols |-> Range(REQUIRED_COLS) \cup {"segment_id"},
          rows |-> << RawRow(Iso(7), "P1", Num(1200), Num(20000)),
                      RawRow(BadTs, "P2", NaN, Num(-10000)),
                      RawRow(Iso(7), "P3", Num(-800), NaN) >>]

FileB == [name |-> "b.parquet",
          cols |-> Range(REQUIRED_COLS),
          rows |-> << RawRow(Iso(20), "P9", Num(960), Num(30000)) >>]

FileC == [name |-> "c.csv",
          cols |-> Range(REQUIRED_COLS) \ {"ts", "misplacement"},
          rows |-> << RawRow(Iso(7), "P1", NaN, Num(20000)) >>]

FileD == [name |-> "d.csv", cols |-> Range(REQUIRED_COLS), rows |-> <<>>]

Files == {FileA, FileB, FileC, FileD}

\* pd.to_datetime(errors="coerce") followed by .dt.hour
to_hour(ts) == IF ts.k = "iso" THEN ts.hour ELSE NaT

LoadedRow(raw, idx) ==
    [hour |-> to_hour(raw.ts),
     row_id |-> idx,
     pole_id |-> raw.pole_id,
     misplacement |-> raw.misplacement,
     rail_incl_corrected |-> raw.rail_incl_corrected,
     color_hex |-> get_color(raw.misplacement),
     rgb |-> hex_to_rgb_list(Str(get_color(raw.misplacement)))]

load_data_dropna(f) ==
    LET missing == SelectSeq(REQUIRED_COLS, LAMBDA c : c \notin f.cols)
        kept == SelectSeq(f.rows, LAMBDA r : to_hour(r.ts) # NaT)
    IN  IF missing # <<>>
        THEN [ok |-> FALSE, missing |-> missing, df |-> <<>>]
        ELSE [ok |-> TRUE, missing |-> <<>>,
              df |-> [i \in 1..Len(kept) |-> LoadedRow(kept[i], i - 1)]]

load_data_partial(f) ==
    [ok |-> TRUE, missing |-> <<>>,
     df |-> [i \in 1..Len(f.rows) |-> LoadedRow(f.rows[i], i - 1)]]

load_data(f) ==
    LET missing == SelectSeq(REQUIRED_COLS, LAMBDA c : c \notin f.cols)
    IN  IF missing # <<>>
        THEN [ok |-> FALSE, missing |-> missing, df |-> <<>>]
        ELSE [ok |-> TRUE, missing |-> <<>>,
              df |-> [i \in 1..Len(f.rows) |-> LoadedRow(f.rows[i], i - 1)]]

\* ------------------------------------------------------------------------
\* app.py: sidebar filters and the slice to render
\* ------------------------------------------------------------------------
hours_present(d) == {d[i].hour : i \in 1..Len(d)} \ {NaT}

default_hours(hp) ==
    LET day == {h \in hp : 5 <= h /\ h <= 15} IN IF day # {} THEN day ELSE hp

Subset(d, hrs) ==
    IF hrs # {} THEN SelectSeq(d, LAMBDA r : r.hour \in hrs) ELSE d

RowIds(d) == {d[i].row_id : i \in 1..Len(d)}

SetMin(S) == CHOOSE x \in S : \A y \in S : x <= y

SetMax(S) == CHOOSE x \in S : \A y \in S : x >= y

ToRender(d, hrs, rng) ==
    SelectSeq(Subset(d, hrs), LAMBDA r : r.row_id >= rng[1] /\ r.row_id <= rng[2])

\* Widget state carried from the previous script run: a widget that was not
\* drawn, or whose options or limits changed, starts from its default.
HoursWidget ==
    [has |-> stage \in {"no_rows_hours", "no_rows_range", "end"},
     options |-> hours_present(df), v |-> sel_hours]

RangeWidget ==
    LET drawn == stage \in {"no_rows_range", "end"}
        ids == RowIds(Subset(df, sel_hours))
    IN  [has |-> drawn,
         lo |-> IF drawn THEN SetMin(ids) ELSE 0,
         hi |-> IF drawn THEN SetMax(ids) ELSE 0,
         v |-> render_range]

\* st.cache_data around load_data: the table of an unchanged upload is the
\* one built before, not rebuilt.
cached_load_data(up) ==
    IF up = uploaded /\ stage \notin {"no_upload", "load_error"}
    THEN [ok |-> TRUE, missing |-> <<>>, df |-> df]
    ELSE load_data(up)

\* One run of the script from the top down to the st.stop() it hits, or to
\* the end of the file.
Stopped(st, err, d, sh) ==
    [df |-> d, load_error |-> err, sel_hours |-> sh,
     render_range |-> <<0, 0>>, stage |-> st]

SelHours(d, hw) ==
    IF hw.has /\ hw.options = hours_present(d)
    THEN hw.v
    ELSE default_hours(hours_present(d))

RenderRange(sub, rw) ==
    IF rw.has /\ rw.lo = SetMin(RowIds(sub)) /\ rw.hi = SetMax(RowIds(sub))
    THEN rw.v
    ELSE <<SetMin(RowIds(sub)), SetMax(RowIds(sub))>>

RunRender(d, sh, rr) ==
    [df |-> d, load_error |-> <<>>, sel_hours |-> sh, render_range |-> rr,
     stage |-> IF ToRender(d, sh, rr) = <<>> THEN "no_rows_range" ELSE "end"]

RunLoaded(d, sh, rw) ==
    IF Subset(d, sh) = <<>>
    THEN Stopped("no_rows_hours", <<>>, d, sh)
    ELSE RunRender(d, sh, RenderRange(Subset(d, sh), rw))

RunLoad(res, hw, rw) ==
    IF ~res.ok
    THEN Stopped("load_error", res.missing, <<>>, {})
    ELSE RunLoaded(res.df, SelHours(res.df, hw), rw)

RunScript(up, hw, rw) ==
    IF up = NoFile
    THEN Stopped("no_upload", <<>>, <<>>, {})
    ELSE RunLoad(cached_load_data(up), hw, rw)

RerunTo(r) ==
    /\ df' = r.df
    /\ load_error' = r.load_error
    /\ sel_hours' = r.sel_hours
    /\ render_range' = r.render_range
    /\ stage' = r.stage

Rerun(up, hw, rw) == RerunTo(RunScript(up, hw, rw))

\* ------------------------------------------------------------------------
\* app.py: the editing panel and the edit form
\* ------------------------------------------------------------------------
BlankText == <<>>

TextInputs == { BlankText, <<" ">>, <<"a", "b", "c">>,
                <<"0", ".", "1", "2">>, <<"n", "a", "n">> }

SessionTexts == { BlankText, <<"0", ".", "1", "2">> }

EditCols == Range(EDITABLE_COLS)

FormInputs(texts, d) ==
    [start : RowIds(d), end : RowIds(d),
     txt : [EditCols -> texts], nan : [EditCols -> BOOLEAN]]

BlankForm ==
    [start |-> 0, end |-> 0,
     txt |-> [c \in EditCols |-> BlankText], nan |-> [c \in EditCols |-> FALSE]]

\* target_ids: the ids of the normalised range that exist in df, ascending.
RECURSIVE IdsFrom(_, _, _)
IdsFrom(s, e, ids) ==
    IF s > e THEN <<>>
    ELSE (IF s \in ids THEN <<s>> ELSE <<>>) \o IdsFrom(s + 1, e, ids)

target_ids(d, start_id, end_id) ==
    IdsFrom(Min(start_id, end_id), Max(start_id, end_id), RowIds(d))

\* new_vals: the (column, value) pairs of the form, in EDITABLE_COLS order.
FieldValue_strict(inp, col) ==
    IF inp.nan[col] THEN <<None>>
    ELSE IF Strip(inp.txt[col]) # <<>>
         THEN (IF PyFloat(inp.txt[col]).ok THEN <<PyFloat(inp.txt[col]).v>> ELSE <<None>>)
         ELSE <<>>

FieldValue(inp, col) ==
    IF inp.nan[col] THEN <<None>>
    ELSE IF Strip(inp.txt[col]) # <<>>
         THEN (IF PyFloat(inp.txt[col]).ok THEN <<PyFloat(inp.txt[col]).v>> ELSE <<>>)
         ELSE <<>>

RECURSIVE NewValsFrom(_, _)
NewValsFrom(inp, i) ==
    IF i > Len(EDITABLE_COLS) THEN <<>>
    ELSE LET col == EDITABLE_COLS[i]
             fv == FieldValue(inp, col)
         IN  (IF fv = <<>> THEN <<>> ELSE << <<col, fv[1]>> >>)
             \o NewValsFrom(inp, i + 1)

new_vals(inp) == NewValsFrom(inp, 1)

RowById(d, rid) ==
    d[CHOOSE i \in 1..Len(d) : d[i].row_id = rid
                               /\ \A j \in 1..(i - 1) : d[j].row_id # rid]

EditRecord(d, rid, col, v, ts) ==
    [row_id |-> rid, pole_id |-> RowById(d, rid).pole_id, column |-> col,
     new_value |-> v, timestamp_utc |-> ts]

\* The records one submission appends: for rid in target_ids, for (col, val)
\* in new_vals.
Appended(d, inp, ts) ==
    LET t == target_ids(d, inp.start, inp.end)
        nv == new_vals(inp)
        m == Len(nv)
    IN  IF Len(t) = 0 \/ m = 0 THEN <<>>
        ELSE [k \in 1..(Len(t) * m) |->
                 LET rid == t[((k - 1) \div m) + 1]
                     pr == nv[((k - 1) % m) + 1]
                 IN  EditRecord(d, rid, pr[1], pr[2], ts)]

\* st.session_state.edits.append(...) for each record of one submission.
append_edits_upsert(ledger, new) ==
    SelectSeq(ledger, LAMBDA r : \A k \in 1..Len(new) :
                  ~(new[k].row_id = r.row_id /\ new[k].column = r.column)) \o new

append_edits(ledger, new) == ledger \o new

\* Lines 27-28, executed by every run: the ledger is created only when the
\* session has none, otherwise it is kept.
session_edits_reset(ledger, fresh) == <<>>

session_edits(ledger, fresh) == IF fresh THEN <<>> ELSE ledger

\* ------------------------------------------------------------------------
\* app.py: exports of the ledger
\* ------------------------------------------------------------------------
\* What is written in the new_value position of an export line: the digits
\* of a float (repr(), the same in to_csv and json.dumps), nothing at all,
\* or one of the words null and NaN.
FloatRepr(v) == [k |-> "float", v |-> v.v]

EmptyField == [k |-> "empty", v |-> 0]

JsonNull == [k |-> "null", v |-> 0]

JsonNaN == [k |-> "NaN", v |-> 0]

EmptyString == [k |-> "text", v |-> 0]

\* pd.DataFrame(edits): new_value is an object column of None when every
\* record is a clear, otherwise a float64 column in which None became NaN.
FrameValue(ledger, i) ==
    IF \A j \in 1..Len(ledger) : ledger[j].new_value = None
    THEN None
    ELSE IF ledger[i].new_value = None THEN NaN ELSE ledger[i].new_value

\* The new_value field of CSV line i: the lambda maps None to "", and
\* to_csv writes "" and a missing value (NaN) as the empty field.
CsvField(ledger, i) ==
    LET v == FrameValue(ledger, i)
        w == IF v = None THEN EmptyString ELSE v
    IN  IF w = EmptyString \/ w = NaN THEN EmptyField ELSE FloatRepr(w)

\* The new_value member of JSON line i, as json.dumps writes it.
JsonField(ledger, i) ==
    LET v == ledger[i].new_value
    IN  IF v = None THEN JsonNull
        ELSE IF v = NaN THEN JsonNaN
        ELSE FloatRepr(v)

ExportCsv(ledger) ==
    [i \in 1..Len(ledger) |->
        [row_id |-> ledger[i].row_id, pole_id |-> ledger[i].pole_id,
         column |-> ledger[i].column, new_value |-> CsvField(ledger, i),
         timestamp_utc |-> ledger[i].timestamp_utc]]

ExportJsonl(ledger) ==
    [i \in 1..Len(ledger) |->
        [row_id |-> ledger[i].row_id, pole_id |-> ledger[i].pole_id,
         column |-> ledger[i].column, new_value |-> JsonField(ledger, i),
         timestamp_utc |-> ledger[i].timestamp_utc]]

\* The export section (lines 325-365) is drawn by a run that reaches the end
\* of the script with a non-empty ledger.
ExportOffered == stage = "end" /\ Len(edits) > 0

\* ------------------------------------------------------------------------
\* Initial state and the user's operations; each one is followed by a run
\* of the whole script.
\* ------------------------------------------------------------------------
ColorIdle == val = NaN /\ color = <<>>

CodecIdle == token = Chr("none", <<>>) /\ rgb_out = <<>>

AppInit ==
    /\ uploaded = NoFile
    /\ df = <<>>
    /\ load_error = <<>>
    /\ sel_hours = {}
    /\ render_range = <<0, 0>>
    /\ edits = session_edits(<<>>, TRUE)
    /\ now = 0
    /\ stage = "no_upload"
    /\ selected_row_id = None
    /\ last_form = BlankForm

Init == AppInit /\ ColorIdle /\ CodecIdle

UploadFile(f) ==
    /\ uploaded' = f
    /\ Rerun(f, HoursWidget, RangeWidget)
    /\ edits' = session_edits(edits, FALSE)
    /\ UNCHANGED <<now, selected_row_id, last_form, colorVars, codecVars>>

Upload == \E f \in Files : UploadFile(f)

RemoveUpload ==
    /\ uploaded # NoFile
    /\ uploaded' = NoFile
    /\ Rerun(NoFile, HoursWidget, RangeWidget)
    /\ edits' = session_edits(edits, FALSE)
    /\ UNCHANGED <<now, selected_row_id, last_form, colorVars, codecVars>>

SetHours ==
    /\ HoursWidget.has
    /\ \E H \in SUBSET hours_present(df) :
          Rerun(uploaded, [HoursWidget EXCEPT !.v = H], RangeWidget)
    /\ edits' = session_edits(edits, FALSE)
    /\ UNCHANGED <<uploaded, now, selected_row_id, last_form, colorVars, codecVars>>

SetRenderRange ==
    /\ RangeWidget.has
    /\ \E a, b \in RangeWidget.lo..RangeWidget.hi :
          /\ a <= b
          /\ Rerun(uploaded, HoursWidget, [RangeWidget EXCEPT !.v = <<a, b>>])
    /\ edits' = session_edits(edits, FALSE)
    /\ UNCHANGED <<uploaded, now, selected_row_id, last_form, colorVars, codecVars>>

\* Pressing "Add change(s) to diff" with the form filled in as inp.
Submit(inp) ==
    /\ stage = "end"
    /\ LET new == Appended(df, inp, now)
       IN  /\ edits' = append_edits(session_edits(edits, FALSE), new)
           /\ now' = IF new # <<>> THEN now + 1 ELSE now
    /\ Rerun(uploaded, HoursWidget, RangeWidget)
    /\ UNCHANGED <<uploaded, selected_row_id, colorVars, codecVars>>

\* Submissions of a session: each field is left blank or given a number, and
\* the ledger and the clock are kept within the bounds of the model.  Every
\* other form content (NaN boxes, blank, unparseable and "nan" text) is
\* submitted in SpecForm.
SessionForms(d) ==
    {f \in FormInputs(SessionTexts, d) : \A c \in EditCols : ~f.nan[c]}

SubmitEdit ==
    /\ stage = "end"
    /\ \E inp \in SessionForms(df) :
          /\ Len(edits) + Len(Appended(df, inp, now)) <= MaxEdits
          /\ now < MaxTime
          /\ Submit(inp)
    /\ UNCHANGED last_form

ClearEdits ==
    /\ ExportOffered
    /\ edits' = <<>>
    /\ Rerun(uploaded, HoursWidget, RangeWidget)
    /\ UNCHANGED <<uploaded, now, selected_row_id, last_form, colorVars, codecVars>>

Next == Upload \/ RemoveUpload \/ SetHours \/ SetRenderRange \/ SubmitEdit \/ ClearEdits

Spec == Init /\ [][Next]_vars

\* ------------------------------------------------------------------------
\* The edit form on its own: a session in which FileA is loaded and the
\* ledger is empty or holds one earlier record; one submission is made with
\* any form content and its inputs are remembered in last_form.
\* ------------------------------------------------------------------------
LoadedA == load_data(FileA).df

PriorLedgers ==
    { <<>>, << EditRecord(LoadedA, 0, "misplacement", Num(1200), 0) >> }

FormInit ==
    /\ uploaded = FileA
    /\ df = LoadedA
    /\ load_error = <<>>
    /\ sel_hours = default_hours(hours_present(LoadedA))
    /\ render_range = <<0, 2>>
    /\ edits \in PriorLedgers
    /\ now = Len(edits)
    /\ stage = "end"
    /\ selected_row_id = None
    /\ last_form = BlankForm
    /\ ColorIdle /\ CodecIdle

SubmitObserved ==
    /\ last_form = BlankForm
    /\ \E inp \in FormInputs(TextInputs, df) : Submit(inp) /\ last_form' = inp

NextForm == SubmitObserved

SpecForm == FormInit /\ [][NextForm]_vars

\* ------------------------------------------------------------------------
\* get_color on its own
\* ------------------------------------------------------------------------
ColorInputs == {NaN, None} \cup {Num(v) : v \in (-MaxVal)..MaxVal}

ColorInit ==
    /\ AppInit /\ CodecIdle
    /\ val \in ColorInputs
    /\ color = <<>>

Classify ==
    /\ color = <<>>
    /\ color' = get_color(val)
    /\ UNCHANGED <<val, appVars, codecVars>>

NextColor == Classify

SpecColor == ColorInit /\ [][NextColor]_vars

\* ------------------------------------------------------------------------
\* hex_to_rgb_list on its own
\* ------------------------------------------------------------------------
Alphabet == {"#", "-", "f", "1", "z"}

SampleTokens ==
    { GREEN, <<" ", "G", "r", "E", "E", "N", " ">>, <<" ", "\t">>,
      <<"r", "g", "b", "(", "1", "0", ",", "2", "0", ",", "3", "0", "0", ")">>,
      <<"r", "g", "b", "a", "(", " ", "1", " ", ",", "2", ",", "9", "9", "9", "9">>,
      <<"r", "g", "b", "(", "1", ",", "2", ")">>,
      <<"r", "g", "b", "(", "1", "2", "3", "4", ",", "5", ",", "6", ")">>,
      <<"#", "a", "b", "c">>, <<"A", "A", "B", "B", "C", "C">>,
      <<"+", "f", "+", "f", "+", "f">>, <<"a", " ", "b", "c", " ", "d">>,
      <<"#", "1", "2", "3", "4", "5", "6", "7">> }

TokenInputs ==
    {Chr("none", <<>>), Chr("nan", <<>>)}
    \cup {Str(s) : s \in SampleTokens}
    \cup {Str(s) : s \in UNION {[1..n -> Alphabet] : n \in 0..MaxLen}}

CodecInit ==
    /\ AppInit /\ ColorIdle
    /\ token \in TokenInputs
    /\ rgb_out = <<>>

Convert ==
    /\ rgb_out = <<>>
    /\ rgb_out' = hex_to_rgb_list(token)
    /\ UNCHANGED <<token, appVars, colorVars>>

NextCodec == Convert

SpecCodec == CodecInit /\ [][NextCodec]_vars

\* ========================================================================
\* Properties
\* ========================================================================
IsPrefix(a, b) == Len(a) <= Len(b) /\ SubSeq(b, 1, Len(a)) = a

Loaded == stage \in {"no_rows_hours", "no_rows_range", "end"}

\* C1: the ledger is append-only.  Every step leaves it unchanged, or
\* extends it at the end with all earlier records kept unchanged and in
\* order, or empties it, and it is emptied only where the clear button is
\* drawn; so two edits of the same (row_id, column) both stay, in
\* submission order.
LedgerAppendOnly ==
    [][ \/ edits' = edits
        \/ Len(edits') > Len(edits) /\ IsPrefix(edits, edits')
        \/ edits' = <<>> /\ ExportOffered ]_vars

SameFieldEditedTwice ==
    /\ Len(edits) = 2
    /\ edits[1].row_id = edits[2].row_id
    /\ edits[1].column = edits[2].column
    /\ edits[1].timestamp_utc < edits[2].timestamp_utc

ThresholdTable(v) ==
    IF v.k # "num" THEN GRAY
    ELSE IF -700 < v.v /\ v.v < 700 THEN GREEN
    ELSE IF 700 <= v.v /\ v.v < 950 THEN YELLOW
    ELSE IF 950 <= v.v /\ v.v <= 1500 THEN ORANGE
    ELSE IF v.v > 1500 THEN RED
    ELSE IF -1000 < v.v /\ v.v <= -700 THEN LIGHTBLUE
    ELSE IF -1500 <= v.v /\ v.v <= -1000 THEN BLUE
    ELSE PURPLE

BoundaryCases ==
    { <<700, YELLOW>>, <<-700, LIGHTBLUE>>, <<950, ORANGE>>, <<1500, ORANGE>>,
      <<1501, RED>>, <<-1000, BLUE>>, <<-1500, BLUE>>, <<-1501, PURPLE>> }

\* C2: get_color follows the threshold table for every input: missing gives
\* gray; |v| < 0.07 green; for v >= 0, below 0.095 yellow, above 0.15 red,
\* else orange; for v < 0, |v| below 0.10 lightblue, above 0.15 purple, else
\* blue; and the listed boundary values map as listed.
ColorFollowsTable ==
    color # <<>> =>
        /\ color = ThresholdTable(val)
        /\ val.k = "num" => color \in {GREEN, YELLOW, ORANGE, RED, LIGHTBLUE, BLUE, PURPLE}
        /\ \A b \in BoundaryCases : val = Num(b[1]) => color = b[2]

PositiveThresholdClassified == val = Num(950) /\ color = ORANGE

\* C3: hex_to_rgb_list returns, for every token, a list of exactly three
\* integers, each in 0..255.
RgbInRange ==
    rgb_out # <<>> =>
        /\ Len(rgb_out) = 3
        /\ \A i \in 1..3 : rgb_out[i] \in 0..255

\* C4: whenever the ledger holds at least one record, the run of the script
\* reaches the export section and offers the CSV and JSON Lines downloads.
ExportAlwaysOffered == Len(edits) > 0 => ExportOffered

\* C5: load_data keeps every row of the input and numbers them 0..n-1 by
\* position, rows with an unparseable timestamp included (null hour); every
\* row left by the hour filter and the row-range filter carries the row_id
\* it got at load time, and that row_id resolves to the same row.
RowIdsDenseAndStable ==
    Loaded =>
        /\ Len(df) = Len(uploaded.rows)
        /\ \A i \in 1..Len(df) :
              /\ df[i].row_id = i - 1
              /\ df[i].pole_id = uploaded.rows[i].pole_id
              /\ df[i].misplacement = uploaded.rows[i].misplacement
              /\ uploaded.rows[i].ts.k = "bad" => df[i].hour = NaT
              /\ RowById(df, i - 1) = df[i]
        /\ \A hrs \in SUBSET hours_present(df) :
              LET sub == Subset(df, hrs)
              IN  \A i \in 1..Len(sub) : sub[i] = df[sub[i].row_id + 1]
        /\ stage \in {"no_rows_range", "end"} =>
              LET tr == ToRender(df, sel_hours, render_range)
              IN  \A i \in 1..Len(tr) :
                     /\ tr[i] = df[tr[i].row_id + 1]
                     /\ RowById(df, tr[i].row_id) = tr[i]

FilteredRowsKeepIds ==
    /\ stage = "end"
    /\ \E i \in 1..Len(df) : df[i].hour = NaT
    /\ LET tr == ToRender(df, sel_hours, render_range)
       IN  /\ Len(tr) < Len(df)
           /\ \E i \in 1..Len(tr) : tr[i].row_id # i - 1

\* C6: submitting edits or clearing the ledger never changes the loaded
\* table, the table always holds the values load_data produced for the
\* current upload, and a step that changes the upload or the table leaves
\* the ledger unchanged.
DatasetAndLedgerSeparate ==
    [][ /\ edits' # edits => uploaded' = uploaded /\ df' = df
        /\ (uploaded' # uploaded \/ df' # df) => edits' = edits
        /\ stage' \in {"no_rows_hours", "no_rows_range", "end"}
              => df' = load_data(uploaded').df ]_vars

LedgerSurvivesReload ==
    /\ uploaded = FileB
    /\ stage = "end"
    /\ \E i \in 1..Len(edits) : edits[i].pole_id = "P3"

CsvResolved(f) == IF f = EmptyField THEN None ELSE Num(f.v)

JsonResolved(f) ==
    IF f = JsonNull THEN None ELSE IF f = JsonNaN THEN NaN ELSE Num(f.v)

\* C7: the CSV export and the JSON Lines export describe the same
\* (row_id, column, resolved value) triples, a clear being the empty field
\* in CSV and null in JSON Lines, and a record that is not a clear is not
\* written as a clear in either.
ExportsAgree ==
    \A i \in 1..Len(edits) :
        /\ CsvResolved(CsvField(edits, i)) = JsonResolved(JsonField(edits, i))
        /\ ExportCsv(edits)[i].row_id = ExportJsonl(edits)[i].row_id
        /\ ExportCsv(edits)[i].column = ExportJsonl(edits)[i].column
        /\ edits[i].new_value = None =>
              CsvField(edits, i) = EmptyField /\ JsonField(edits, i) = JsonNull
        /\ edits[i].new_value # None =>
              CsvField(edits, i) # EmptyField /\ JsonField(edits, i) # JsonNull

HasUsableValue(inp, c) ==
    inp.nan[c] \/ (Strip(inp.txt[c]) # <<>> /\ PyFloat(inp.txt[c]).ok)

TargetRows(inp) ==
    {rid \in RowIds(df) :
        Min(inp.start, inp.end) <= rid /\ rid <= Max(inp.start, inp.end)}

\* C8: in one submission a field whose text is blank or is not a number is
\* dropped and the other field proceeds: for every target row exactly one
\* record is appended for each field that has a parsed number or its NaN
\* box checked, none for any other field, and the ledger is unchanged when
\* no field has a usable value.
UnparseableFieldDropped ==
    [][ last_form' # last_form =>
          LET inp == last_form'
              usable == {c \in EditCols : HasUsableValue(inp, c)}
              new == SubSeq(edits', Len(edits) + 1, Len(edits'))
          IN  /\ IsPrefix(edits, edits')
              /\ \A rid \in TargetRows(inp) : \A c \in EditCols :
                    Cardinality({k \in 1..Len(new) :
                                    new[k].row_id = rid /\ new[k].column = c})
                       = IF c \in usable THEN 1 ELSE 0
              /\ \A k \in 1..Len(new) :
                    /\ new[k].row_id \in TargetRows(inp)
                    /\ new[k].column \in usable
                    /\ new[k].new_value =
                          IF inp.nan[new[k].column] THEN None
                          ELSE PyFloat(inp.txt[new[k].column]).v
              /\ usable = {} => edits' = edits ]_vars

OneFieldDroppedOtherRecorded ==
    /\ last_form.txt["misplacement"] = <<"a", "b", "c">>
    /\ ~last_form.nan["misplacement"]
    /\ last_form.txt["rail_incl_corrected"] = <<"0", ".", "1", "2">>
    /\ last_form.start = 0 /\ last_form.end = 2
    /\ Len(edits) = 3
    /\ \A i \in 1..3 : edits[i].column = "rail_incl_corrected"
                       /\ edits[i].row_id = i - 1

\* C9: an upload that lacks a required column fails to load with an error
\* naming exactly the missing columns; no table is produced, nothing is
\* drawn from it, and the ledger is unchanged by the failed load.
MissingColumnsFailLoad ==
    [][ /\ (uploaded' # NoFile /\ ~(Range(REQUIRED_COLS) \subseteq uploaded'.cols)) =>
              /\ stage' = "load_error"
              /\ Range(load_error') = Range(REQUIRED_COLS) \ uploaded'.cols
              /\ df' = <<>>
              /\ edits' = edits
        /\ stage' = "load_error" => load_error' # <<>> ]_vars

LoadFailedWithLedger ==
    /\ stage = "load_error"
    /\ load_error = <<"ts", "misplacement">>
    /\ df = <<>>
    /\ Len(edits) > 0

\* C10: the colour get_color gives a misplacement value is the colour the
\* legend states for that value.
ColorMatchesLegend ==
    (color # <<>> /\ val.k = "num") => color = LegendColor(val.v)

====
